---------------------------- MODULE Spec2Model ----------------------------
(***************************************************************************)
(* A model of the polybot-data-etl ingestion-and-landing pipeline:         *)
(*   - PolymarketProcessor._fetch_markets (offset/limit pagination),       *)
(*   - PolymarketProcessor.fetch_markets_for_strategy_0 (the orchestrator),*)
(*   - PolymarketProcessor._filter_markets_by_thresholds (the filter),     *)
(*   - R2Processor.list_keys and R2Processor.put_large_bytes_multipart.    *)
(* Each of the four parts has its own specification over the same          *)
(* variables; the variables of the parts a specification does not run stay *)
(* at their idle values.                                                   *)
(***************************************************************************)
EXTENDS Integers, Sequences, FiniteSets, TLC

VARIABLES
    \* ---- _fetch_markets / fetch_markets_for_strategy_0 ----
    caller,        \* which entry point started the fetch
    max_markets,   \* parameter max_markets
    page_limit,    \* parameter page_limit
    out,           \* len(out): the number of records collected so far
    offset,        \* the local offset
    requests,      \* history: the GET requests sent, as [limit, offset]
    pages,         \* history: the responses received, as [status, list, n]
    pc,            \* "loop" | "returned" | "raised"
    ret,           \* the number of records of the returned list
    opc,           \* orchestrator: "idle" | "fetch" | "filter" | "failed" | "returned"
    err,           \* the exception that ended the run ("none" when there is none)
    puts,          \* history: the keys written to the object store by the run
    \* ---- _filter_markets_by_thresholds ----
    markets,       \* parameter markets: the list of upstream records
    policy,        \* the keyword parameters of the call
    fpc,           \* "input" | "done"
    df,            \* the frame with its computed columns, one row per record
    result,        \* the returned frame: the rows of df kept, in their order
    \* ---- R2Processor.list_keys ----
    listing,       \* the store: the pages it serves the listing in
    keys,          \* the local list keys
    token,         \* the local token (0 is None)
    lk_requests,   \* history: the ContinuationToken of each request sent (0: none)
    lpc,           \* "loop" | "returned"
    \* ---- R2Processor.put_large_bytes_multipart ----
    data,          \* parameter data, one element per half MiB
    part_size_mb,  \* parameter part_size_mb
    object,        \* the store: the object visible at the key, [exists, body]
    existed,       \* history: whether an object was visible at the key before
    sessions,      \* the store: its multipart sessions, by upload id
    s3_calls,      \* history: the multipart calls sent, as [op, id, ok]
    upload_id,     \* the local upload_id (0 before the session is created)
    parts,         \* the local list parts
    part_number,   \* the local part_number
    start,         \* the loop variable start
    mpc            \* "create" | "upload" | "complete" | "returned" | "raised"

fetchVars == <<caller, max_markets, page_limit, out, offset, requests, pages,
               pc, ret, opc, err, puts>>

filterVars == <<markets, policy, fpc, df, result>>

listVars == <<listing, keys, token, lk_requests, lpc>>

mpVars == <<data, part_size_mb, object, existed, sessions, s3_calls, upload_id,
            parts, part_number, start, mpc>>

vars == <<fetchVars, filterVars, listVars, mpVars>>

Min(a, b) == IF a < b THEN a ELSE b

(***************************************************************************)
(* Bounds of the model and the program's constants.                        *)
(***************************************************************************)
MaxMarkets == 4
MaxPageLimit == 3
MaxBatch == 4
DefaultMaxMarkets == 500
DefaultPageLimit == 200

\* The number of records a page of the upstream may carry: any small number
\* (the upstream is free to ignore the limit) and the sizes of the spec's
\* scenario (pages of 200, 200 and 50 records).
BatchSizes == (0 .. MaxBatch) \cup {50, 100, 200}

\* What r.json() may be: a list of n records, or something that is no list.
Bodies == [list : {TRUE}, n : BatchSizes] \cup {[list |-> FALSE, n |-> 0]}

\* The status of a response, and what r.json() may be for it: an error
\* response carries no list of records.
Statuses == {200, 404, 500}
BodiesOf(status) ==
    IF status = 200 THEN Bodies ELSE {[list |-> FALSE, n |-> 0]}

(***************************************************************************)
(* _fetch_markets                                                          *)
(***************************************************************************)
\* while len(out) < max_markets
LoopCond(n) == n < max_markets

\* lim = min(page_limit, max_markets - len(out))
Lim == Min(page_limit, max_markets - out)

\* A variant that never raises (raise_for_status left out).
RaiseForStatus_Never(status) == FALSE

\* r.raise_for_status(): raises for a 4xx or 5xx status
RaiseForStatus(status) == status >= 400

\* if not isinstance(batch, list) or not batch: break
EmptyOrNotList(batch) == ~batch.list \/ batch.n = 0

\* A variant without the end-of-list test.
ShortBatch_Never(n, l) == FALSE

\* if len(batch) < lim: break
ShortBatch(n, l) == n < l

\* The exception leaves _fetch_markets; in fetch_markets_for_strategy_0 nothing
\* catches it, so the run ends at line 24.
Raise(e) ==
    /\ pc' = "raised"
    /\ err' = e
    /\ opc' = IF caller = "fetch_markets_for_strategy_0" THEN "failed" ELSE opc
    /\ UNCHANGED <<out, offset, ret>>

\* return out; in fetch_markets_for_strategy_0 the next statement is line 25.
Return(n) ==
    /\ pc' = "returned"
    /\ ret' = n
    /\ opc' = IF caller = "fetch_markets_for_strategy_0" THEN "filter" ELSE opc
    /\ err' = err

\* One iteration of the while loop: one request and its response.
FetchPage(status, batch) ==
    /\ pc = "loop"
    /\ requests' = Append(requests, [limit |-> Lim, offset |-> offset])
    /\ pages' = Append(pages, [status |-> status, list |-> batch.list, n |-> batch.n])
    /\ IF RaiseForStatus(status)
         THEN Raise("HTTPError")
         ELSE IF EmptyOrNotList(batch)
           THEN Return(out) /\ UNCHANGED <<out, offset>>
           ELSE /\ out' = out + batch.n
                /\ IF ShortBatch(batch.n, Lim)
                     THEN Return(out') /\ offset' = offset
                     ELSE /\ offset' = offset + Lim
                          /\ IF LoopCond(out')
                               THEN /\ pc' = "loop"
                                    /\ UNCHANGED <<ret, opc, err>>
                               ELSE Return(out')
    /\ UNCHANGED <<caller, max_markets, page_limit, puts>>
    /\ UNCHANGED <<filterVars, listVars, mpVars>>

Request == \E status \in Statuses : \E batch \in BodiesOf(status) : FetchPage(status, batch)

(***************************************************************************)
(* fetch_markets_for_strategy_0                                            *)
(***************************************************************************)
\* Line 25: self._filter_markets_by_thresholds(market_data).  The function is
\* defined at line 50 without a self parameter and with one positional
\* parameter (markets), everything else keyword-only; the bound call passes
\* two positional arguments (self, market_data), and Python raises TypeError
\* before the body runs.  Lines 26-47 (key, metadata, put_parquet_df, return)
\* are never reached.
CallFilter ==
    /\ opc = "filter"
    /\ opc' = "failed"
    /\ err' = "TypeError"
    /\ UNCHANGED <<caller, max_markets, page_limit, out, offset, requests,
                   pages, pc, ret, puts>>
    /\ UNCHANGED <<filterVars, listVars, mpVars>>

\* The parameters of a direct call of _fetch_markets (any positive numbers)
\* and those of the call at line 24 (the defaults).
FetchParams ==
    [c : {"_fetch_markets"}, m : 1 .. MaxMarkets, p : 1 .. MaxPageLimit]
      \cup [c : {"_fetch_markets", "fetch_markets_for_strategy_0"},
            m : {DefaultMaxMarkets}, p : {DefaultPageLimit}]

FetchInit ==
    /\ \E a \in FetchParams :
          /\ caller = a.c
          /\ max_markets = a.m
          /\ page_limit = a.p
    /\ out = 0
    /\ offset = 0
    /\ requests = <<>>
    /\ pages = <<>>
    /\ pc = "loop"
    /\ ret = 0
    /\ opc = IF caller = "fetch_markets_for_strategy_0" THEN "fetch" ELSE "idle"
    /\ err = "none"
    /\ puts = <<>>

\* The fetch is not running: the state other specifications keep it in.
FetchIdle ==
    /\ caller = "none"
    /\ max_markets = DefaultMaxMarkets
    /\ page_limit = DefaultPageLimit
    /\ out = 0
    /\ offset = 0
    /\ requests = <<>>
    /\ pages = <<>>
    /\ pc = "idle"
    /\ ret = 0
    /\ opc = "idle"
    /\ err = "none"
    /\ puts = <<>>

(***************************************************************************)
(* _filter_markets_by_thresholds                                           *)
(*                                                                         *)
(* Numbers are integers: spreads and quotes in cents (0.03 is 3), volumes  *)
(* and liquidities in thousands (30_000 is 30).  A raw field of a record   *)
(* is absent, None, a text that is no number, a text that is a number, or  *)
(* a number; a flag is absent, None or a boolean.                          *)
(***************************************************************************)
MaxRows == 2

Absent == [k |-> "absent", v |-> 0]
NoneV == [k |-> "none", v |-> 0]
Text == [k |-> "text", v |-> 0]
Str(n) == [k |-> "str", v |-> n]
Num(n) == [k |-> "num", v |-> n]
Bool(b) == [k |-> "bool", v |-> IF b THEN 1 ELSE 0]

\* A float of a numeric column: NaN or a number.
NaN == [nan |-> TRUE, v |-> 0]
Val(n) == [nan |-> FALSE, v |-> n]

NumFields == {"volume24hrClob", "volume24hr", "liquidityClob", "liquidityNum",
              "liquidity", "bestBid", "bestAsk", "spread"}
FlagFields == {"active", "closed", "archived", "acceptingOrders"}
Fields == NumFields \cup FlagFields

\* df = pd.json_normalize(markets): a column for every key some record has;
\* a record without the key holds NaN there.
InColumns(ms, col) == \E i \in 1 .. Len(ms) : ms[i][col].k # "absent"

\* pd.to_numeric(..., errors="coerce"): a number or a numeric text is its
\* value, anything else NaN.
ToNumeric(x) == IF x.k \in {"num", "str"} THEN Val(x.v) ELSE NaN

\* num(col), at row i
NumAt(ms, col, i) == IF InColumns(ms, col) THEN ToNumeric(ms[i][col]) ELSE NaN

\* a.where(cond, b), a.fillna(d) and a - b, at one row
Where(a, cond, b) == IF cond THEN a ELSE b
FillNa(a, d) == IF a.nan THEN Val(d) ELSE a
Minus(a, b) == IF a.nan \/ b.nan THEN NaN ELSE Val(a.v - b.v)

\* vol24h_clob.where(vol24h_clob.notna(), vol24h_raw).fillna(0)
Volume24hCanon(ms, i) ==
    LET vol24h_clob == NumAt(ms, "volume24hrClob", i)
        vol24h_raw == NumAt(ms, "volume24hr", i)
    IN  FillNa(Where(vol24h_clob, ~vol24h_clob.nan, vol24h_raw), 0)

\* liq_clob.where(liq_clob.notna(), liq_num).where(lambda x: x.notna(), liq_raw).fillna(0)
LiquidityCanon(ms, i) ==
    LET liq_clob == NumAt(ms, "liquidityClob", i)
        liq_num == NumAt(ms, "liquidityNum", i)
        liq_raw == NumAt(ms, "liquidity", i)
        x == Where(liq_clob, ~liq_clob.nan, liq_num)
    IN  FillNa(Where(x, ~x.nan, liq_raw), 0)

\* A variant without the second where (line 96): the explicit spread is kept
\* whatever bestBid and bestAsk are.
SpreadCalc_ExplicitWins(ms, i) ==
    LET bestBid == NumAt(ms, "bestBid", i)
        bestAsk == NumAt(ms, "bestAsk", i)
        spread == NumAt(ms, "spread", i)
    IN  Where(spread, ~spread.nan, Minus(bestAsk, bestBid))

\* spread_calc = spread.where(spread.notna(), df["bestAsk"] - df["bestBid"])
\* spread_calc = spread_calc.where(df["bestBid"].notna() & df["bestAsk"].notna(), np.nan)
SpreadCalc(ms, i) ==
    LET bestBid == NumAt(ms, "bestBid", i)
        bestAsk == NumAt(ms, "bestAsk", i)
        spread == NumAt(ms, "spread", i)
        spread_calc == Where(spread, ~spread.nan, Minus(bestAsk, bestBid))
    IN  Where(spread_calc, ~bestBid.nan /\ ~bestAsk.nan, NaN)

\* df[col].fillna(default) if col in df.columns else default, compared with
\* True or False at row i
FlagAt(ms, col, default, i) ==
    IF InColumns(ms, col)
      THEN IF ms[i][col].k = "bool" THEN ms[i][col].v = 1 ELSE default
      ELSE default

\* live_mask (lines 101-108)
LiveMask(ms, require_live, i) ==
    IF require_live
      THEN /\ FlagAt(ms, "active", TRUE, i) = TRUE
           /\ FlagAt(ms, "closed", FALSE, i) = FALSE
           /\ FlagAt(ms, "archived", FALSE, i) = FALSE
           /\ FlagAt(ms, "acceptingOrders", TRUE, i) = TRUE
      ELSE TRUE

\* The frame after line 97: the row's index label and its computed columns.
Frame(ms) ==
    [i \in 1 .. Len(ms) |->
        [idx |-> i,
         volume24h_canon |-> Volume24hCanon(ms, i),
         liquidity_canon |-> LiquidityCanon(ms, i),
         bestBid |-> NumAt(ms, "bestBid", i),
         bestAsk |-> NumAt(ms, "bestAsk", i),
         spread_calc |-> SpreadCalc(ms, i)]]

\* a <= x and a >= x on a float column: False at NaN
Le(a, x) == ~a.nan /\ a.v <= x
Ge(a, x) == ~a.nan /\ a.v >= x

\* A variant of the mask without its two lower thresholds.
Mask_SpreadOnly(ms, p, row) ==
    /\ LiveMask(ms, p.require_live, row.idx)
    /\ ~row.spread_calc.nan
    /\ Le(row.spread_calc, p.max_spread)

\* A variant of the mask without the liveness test.
Mask_NoLive(ms, p, row) ==
    /\ ~row.spread_calc.nan
    /\ Le(row.spread_calc, p.max_spread)
    /\ Ge(row.liquidity_canon, p.min_liquidity_clob)
    /\ Ge(row.volume24h_canon, p.min_volume24h)

\* mask (lines 111-117)
Mask(ms, p, row) ==
    /\ LiveMask(ms, p.require_live, row.idx)
    /\ ~row.spread_calc.nan
    /\ Le(row.spread_calc, p.max_spread)
    /\ Ge(row.liquidity_canon, p.min_liquidity_clob)
    /\ Ge(row.volume24h_canon, p.min_volume24h)

\* The order of sort_values(["volume24h_canon", "liquidity_canon",
\* "spread_calc"], ascending=[False, False, True]): a strictly before b.
\* (No key of a kept row is NaN: the canonical columns are filled with 0 and
\* the mask drops a NaN spread_calc.)
Before(a, b) ==
    \/ a.volume24h_canon.v > b.volume24h_canon.v
    \/ /\ a.volume24h_canon.v = b.volume24h_canon.v
       /\ \/ a.liquidity_canon.v > b.liquidity_canon.v
          \/ /\ a.liquidity_canon.v = b.liquidity_canon.v
             /\ a.spread_calc.v < b.spread_calc.v

\* s with row r put before the first row that sorts strictly after r: rows
\* that compare equal keep the order they came in.
InsertRow(s, r) ==
    LET after == {j \in 1 .. Len(s) : Before(r, s[j])}
        k == IF after = {} THEN Len(s) + 1
             ELSE CHOOSE j \in after : \A m \in after : j <= m
    IN  SubSeq(s, 1, k - 1) \o <<r>> \o SubSeq(s, k, Len(s))

RECURSIVE SortRows(_, _)
SortRows(s, n) == IF n = 0 THEN <<>> ELSE InsertRow(SortRows(s, n - 1), s[n])

\* A variant that reverses the frame before sorting it: equal rows come out
\* in the reverse of their input order.
SortValues_Unstable(s) ==
    LET r == [i \in 1 .. Len(s) |-> s[Len(s) + 1 - i]]
    IN  SortRows(r, Len(r))

\* out.sort_values(...) with several keys: pandas sorts the frame by a
\* lexicographic, stable sort of the key columns (the kind argument applies
\* to a single key only).
SortValues(s) == SortRows(s, Len(s))

\* Lines 132-134: out = df.loc[mask, keep].copy(), sorted.
FilterMarkets(ms, frame, p) ==
    SortValues(SelectSeq(frame, LAMBDA row : Mask(ms, p, row)))

\* The records of the model: the record of the spec's example with every
\* flag absent, and its variations in one group of fields.
Base ==
    [f \in Fields |->
        CASE f = "volume24hrClob" -> Num(60)
          [] f = "liquidityClob" -> NoneV
          [] f = "liquidityNum" -> Num(40)
          [] f = "bestBid" -> Num(40)
          [] f = "bestAsk" -> Num(41)
          [] OTHER -> Absent]

VolumeRows ==
    {[Base EXCEPT !["volume24hrClob"] = a, !["volume24hr"] = b] :
        a \in {Absent, Text, Num(60), Num(-1)}, b \in {Absent, Str(50), Num(49)}}

LiquidityRows ==
    {[Base EXCEPT !["liquidityClob"] = a, !["liquidityNum"] = b, !["liquidity"] = c] :
        a \in {NoneV, Num(31), Num(-1)}, b \in {Absent, Str(40)},
        c \in {Absent, Text, Num(30)}}

SpreadRows ==
    {[Base EXCEPT !["bestBid"] = a, !["bestAsk"] = b, !["spread"] = c] :
        a \in {Absent, Num(40)}, b \in {Text, Num(41), Num(44)},
        c \in {Absent, Num(1), Str(3), Num(4)}}

FlagRows ==
    {[Base EXCEPT ![f] = a] : f \in FlagFields, a \in {NoneV, Bool(TRUE), Bool(FALSE)}}

Records == VolumeRows \cup LiquidityRows \cup SpreadRows \cup FlagRows

\* The defaults of the signature (lines 53-56) and other keyword arguments.
DefaultPolicy ==
    [max_spread |-> 3, min_liquidity_clob |-> 30, min_volume24h |-> 50,
     require_live |-> TRUE]

Policies ==
    {DefaultPolicy,
     [DefaultPolicy EXCEPT !.require_live = FALSE],
     [DefaultPolicy EXCEPT !.min_liquidity_clob = -2, !.min_volume24h = -2],
     [DefaultPolicy EXCEPT !.max_spread = 1, !.min_liquidity_clob = 0,
                           !.min_volume24h = 0]}

FilterIdle ==
    /\ markets = <<>>
    /\ policy = DefaultPolicy
    /\ fpc = "idle"
    /\ df = <<>>
    /\ result = <<>>

FilterInit ==
    /\ markets = <<>>
    /\ policy = DefaultPolicy
    /\ fpc = "input"
    /\ df = <<>>
    /\ result = <<>>

\* The caller builds the argument: one more record in the list.
AddRecord(r) ==
    /\ fpc = "input"
    /\ Len(markets) < MaxRows
    /\ markets' = Append(markets, r)
    /\ UNCHANGED <<policy, fpc, df, result>>
    /\ UNCHANGED <<fetchVars, listVars, mpVars>>

\* The call _filter_markets_by_thresholds(markets, **p).
Filter(p) ==
    /\ fpc = "input"
    /\ policy' = p
    /\ df' = Frame(markets)
    /\ result' = FilterMarkets(markets, df', p)
    /\ fpc' = "done"
    /\ UNCHANGED markets
    /\ UNCHANGED <<fetchVars, listVars, mpVars>>

FilterNext ==
    \/ \E r \in Records : AddRecord(r)
    \/ \E p \in Policies : Filter(p)


(***************************************************************************)
(* R2Processor.list_keys                                                   *)
(*                                                                         *)
(* The store serves a listing in pages.  The response to a request is      *)
(* page 1 when the request carries no ContinuationToken and page t when it *)
(* carries token t; a page that is not the last has IsTruncated set and    *)
(* NextContinuationToken naming the page after it.  An item of Contents is *)
(* its Key; "" stands for an item without a Key.                           *)
(***************************************************************************)
MaxPages == 3
MaxPageKeys == 2

Items == {"a", "b", ""}

\* The pages of at most MaxPageKeys items, no item twice.
PagesOf ==
    UNION {{p \in [1 .. n -> Items] : \A i, j \in 1 .. n : p[i] = p[j] => i = j} :
             n \in 0 .. MaxPageKeys}

Listings == UNION {[1 .. n -> PagesOf] : n \in 1 .. MaxPages}

\* self._s3.list_objects_v2(**kwargs): ContinuationToken is sent only for a
\* token that is not None or empty (lines 102-103).
ListObjectsV2(t) ==
    LET j == IF t # 0 THEN t ELSE 1
    IN  [Contents |-> listing[j],
         IsTruncated |-> j < Len(listing),
         NextContinuationToken |-> IF j < Len(listing) THEN j + 1 ELSE 0]

\* for item in resp.get("Contents", []) or []: k = item.get("Key"); if k: keys.append(k)
KeysOf(contents) == SelectSeq(contents, LAMBDA k : k # "")

\* A variant that takes every listing for complete after one page.
IsTruncated_Never(resp) == FALSE

\* if resp.get("IsTruncated")
IsTruncated(resp) == resp.IsTruncated

\* One iteration of the while True loop: one request and its response.
ListPage ==
    /\ lpc = "loop"
    /\ LET resp == ListObjectsV2(token)
       IN  /\ lk_requests' = Append(lk_requests, token)
           /\ keys' = keys \o KeysOf(resp.Contents)
           /\ IF IsTruncated(resp)
                THEN token' = resp.NextContinuationToken /\ lpc' = "loop"
                ELSE token' = token /\ lpc' = "returned"
    /\ UNCHANGED listing
    /\ UNCHANGED <<fetchVars, filterVars, mpVars>>

ListIdle ==
    /\ listing = <<>>
    /\ keys = <<>>
    /\ token = 0
    /\ lk_requests = <<>>
    /\ lpc = "idle"

ListInit ==
    /\ listing \in Listings
    /\ keys = <<>>
    /\ token = 0
    /\ lk_requests = <<>>
    /\ lpc = "loop"

ListNext == ListPage

(***************************************************************************)
(* R2Processor.put_large_bytes_multipart                                   *)
(*                                                                         *)
(* The payload is counted in halves of a MiB, and byte i of it is i, so    *)
(* that a chunk shows the offsets it was cut from.  The store keeps its    *)
(* multipart sessions by upload id; one of another writer may be open.     *)
(***************************************************************************)
MaxDataLen == 25
MiB == 2
MinPartSizeMb == 5
PartSizesMb == {1, 5, 6}

Max(a, b) == IF a > b THEN a ELSE b

\* A variant without the 5 MiB floor.
PartSize_NoFloor == part_size_mb * MiB

\* part_size = max(5, part_size_mb) * 1024 * 1024
PartSize == Max(MinPartSizeMb, part_size_mb) * MiB

\* data[start : start + part_size]
Chunk == SubSeq(data, start + 1, Min(start + PartSize, Len(data)))

\* for start in range(0, len(data), part_size): is there a next start?
InRange(st) == st < Len(data)

Call(op, ok) == [op |-> op, id |-> upload_id, ok |-> ok]

\* A variant of the except clause that re-raises without the abort call.
AbortAndRaise_NoAbort(failed) ==
    /\ s3_calls' = Append(s3_calls, failed)
    /\ mpc' = "raised"
    /\ UNCHANGED <<sessions, object, parts, part_number, start, upload_id>>

\* except Exception: self._s3.abort_multipart_upload(...); raise  (after the
\* failed call): the store drops the session and its parts.
AbortAndRaise(failed) ==
    /\ s3_calls' = s3_calls \o <<failed, Call("abort_multipart_upload", TRUE)>>
    /\ sessions' = [sessions EXCEPT ![upload_id].state = "aborted",
                                    ![upload_id].parts = <<>>]
    /\ mpc' = "raised"
    /\ UNCHANGED <<object, parts, part_number, start, upload_id>>

\* mpu = self._s3.create_multipart_upload(**create_kwargs); upload_id = mpu["UploadId"]
\* A failure here is outside the try: it reaches the caller as it is.
CreateMultipartUpload(ok) ==
    /\ mpc = "create"
    /\ IF ok
         THEN /\ sessions' = Append(sessions, [key |-> "key", state |-> "open",
                                               parts |-> <<>>])
              /\ upload_id' = Len(sessions) + 1
              /\ s3_calls' = Append(s3_calls, [op |-> "create_multipart_upload",
                                               id |-> Len(sessions) + 1, ok |-> TRUE])
              /\ mpc' = IF InRange(0) THEN "upload" ELSE "complete"
         ELSE /\ s3_calls' = Append(s3_calls, [op |-> "create_multipart_upload",
                                               id |-> 0, ok |-> FALSE])
              /\ mpc' = "raised"
              /\ UNCHANGED <<sessions, upload_id>>
    /\ UNCHANGED <<data, part_size_mb, object, existed, parts, part_number, start>>
    /\ UNCHANGED <<fetchVars, filterVars, listVars>>

\* One iteration of the for loop: upload_part for the chunk at start.
UploadPart(ok) ==
    /\ mpc = "upload"
    /\ IF ok
         THEN /\ sessions' = [sessions EXCEPT ![upload_id].parts =
                                 Append(@, [PartNumber |-> part_number, Body |-> Chunk])]
              /\ s3_calls' = Append(s3_calls, Call("upload_part", TRUE))
              /\ parts' = Append(parts, [ETag |-> Chunk, PartNumber |-> part_number])
              /\ part_number' = part_number + 1
              /\ start' = start + PartSize
              /\ mpc' = IF InRange(start') THEN "upload" ELSE "complete"
              /\ UNCHANGED <<object, upload_id>>
         ELSE AbortAndRaise(Call("upload_part", FALSE))
    /\ UNCHANGED <<data, part_size_mb, existed>>
    /\ UNCHANGED <<fetchVars, filterVars, listVars>>

RECURSIVE Concat(_, _)
\* The bodies of the first n parts, one after the other.
Concat(ps, n) == IF n = 0 THEN <<>> ELSE Concat(ps, n - 1) \o ps[n].Body

\* complete = self._s3.complete_multipart_upload(...); return complete
\* The store refuses an empty list of parts; when it accepts, the object made
\* of the listed parts becomes visible at the key.
CompleteMultipartUpload(ok) ==
    /\ mpc = "complete"
    /\ ok => parts # <<>>
    /\ IF ok
         THEN /\ sessions' = [sessions EXCEPT ![upload_id].state = "completed"]
              /\ object' = [exists |-> TRUE,
                            body |-> Concat(sessions[upload_id].parts,
                                            Len(sessions[upload_id].parts))]
              /\ s3_calls' = Append(s3_calls, [op |-> "complete_multipart_upload",
                                               id |-> upload_id, ok |-> TRUE,
                                               Parts |-> parts])
              /\ mpc' = "returned"
              /\ UNCHANGED <<parts, part_number, start, upload_id>>
         ELSE AbortAndRaise(Call("complete_multipart_upload", FALSE))
    /\ UNCHANGED <<data, part_size_mb, existed>>
    /\ UNCHANGED <<fetchVars, filterVars, listVars>>

MultipartIdle ==
    /\ data = <<>>
    /\ part_size_mb = 16
    /\ object = [exists |-> FALSE, body |-> <<>>]
    /\ existed = FALSE
    /\ sessions = <<>>
    /\ s3_calls = <<>>
    /\ upload_id = 0
    /\ parts = <<>>
    /\ part_number = 1
    /\ start = 0
    /\ mpc = "idle"

MultipartInit ==
    /\ \E n \in 0 .. MaxDataLen : data = [i \in 1 .. n |-> i]
    /\ part_size_mb \in PartSizesMb
    /\ existed \in BOOLEAN
    /\ object = [exists |-> existed, body |-> <<>>]
    /\ sessions \in {<<>>, <<[key |-> "other", state |-> "open", parts |-> <<>>]>>}
    /\ s3_calls = <<>>
    /\ upload_id = 0
    /\ parts = <<>>
    /\ part_number = 1
    /\ start = 0
    /\ mpc = "create"

MultipartNext ==
    \/ \E ok \in BOOLEAN : CreateMultipartUpload(ok)
    \/ \E ok \in BOOLEAN : UploadPart(ok)
    \/ \E ok \in BOOLEAN : CompleteMultipartUpload(ok)

(***************************************************************************)
(* Properties of _fetch_markets and fetch_markets_for_strategy_0           *)
(***************************************************************************)
RECURSIVE Collected(_)
\* The number of records of the first k pages received.
Collected(k) == IF k = 0 THEN 0 ELSE Collected(k - 1) + pages[k].n

PageSizes == [i \in 1 .. Len(pages) |-> pages[i].n]

Is2xx(status) == status >= 200 /\ status <= 299

\* Page i ends the pagination: the count has reached max_markets, or the page
\* is empty or no list, or it is shorter than the limit requested for it.
StopsAt(i) ==
    \/ Collected(i) >= max_markets
    \/ ~pages[i].list
    \/ pages[i].n = 0
    \/ pages[i].n < requests[i].limit

ScenarioPages == <<200, 200, 50>>

IsPrefix(s, t) == Len(s) <= Len(t) /\ \A i \in 1 .. Len(s) : s[i] = t[i]

\* C1: _fetch_markets stops paginating as soon as the collected count has
\* reached max_markets, or the page just received is empty or not a list, or
\* it is strictly shorter than the limit requested for it: that page is the
\* last one requested and the loop is over.  Against an upstream that answers
\* 200, 200, 50 records with max_markets = 500 and page_limit = 200, the fetch
\* sends exactly three requests and returns exactly 450 records.
C1_StopsPaginating ==
    /\ Len(pages) = Len(requests)
    /\ \A i \in 1 .. Len(pages) :
          StopsAt(i) => (i = Len(requests) /\ pc # "loop")
    /\ (/\ max_markets = 500
        /\ page_limit = 200
        /\ \A i \in 1 .. Len(pages) : Is2xx(pages[i].status) /\ pages[i].list
        /\ IsPrefix(PageSizes, ScenarioPages))
         => IF PageSizes = ScenarioPages
              THEN pc = "returned" /\ Len(requests) = 3 /\ ret = 450
              ELSE pc = "loop"

C1_Witness ==
    /\ max_markets = 500
    /\ page_limit = 200
    /\ PageSizes = ScenarioPages
    /\ \A i \in 1 .. Len(pages) : Is2xx(pages[i].status) /\ pages[i].list
    /\ pc = "returned"
    /\ requests[3].limit = 100

C3_AtMostMaxRecords == pc = "returned" => ret <= max_markets

\* C5: a run of fetch_markets_for_strategy_0 whose page requests were all
\* answered 2xx and in which no write to the object store failed ends by
\* returning (table, key, uri) after one columnar put under that key.
C5_SuccessfulRunReturnsTriple ==
    (/\ caller = "fetch_markets_for_strategy_0"
     /\ \A i \in 1 .. Len(pages) : Is2xx(pages[i].status)
     /\ opc \notin {"fetch", "filter"})
        => (opc = "returned" /\ Len(puts) = 1)

(***************************************************************************)
(* Properties of _filter_markets_by_thresholds                             *)
(***************************************************************************)
IsNumeric(x) == x.k \in {"num", "str"}

RECURSIVE FirstNumeric(_, _)
\* The first numeric value among the fields named by names, else 0.
FirstNumeric(rec, names) ==
    IF names = <<>> THEN 0
    ELSE IF IsNumeric(rec[Head(names)]) THEN rec[Head(names)].v
    ELSE FirstNumeric(rec, Tail(names))

\* A flag's value, with its default when the record does not give one.
FlagOr(rec, f, default) == IF rec[f].k = "bool" THEN rec[f].v = 1 ELSE default

IsLive(rec) ==
    /\ FlagOr(rec, "active", TRUE)
    /\ ~FlagOr(rec, "closed", FALSE)
    /\ ~FlagOr(rec, "archived", FALSE)
    /\ FlagOr(rec, "acceptingOrders", TRUE)

\* The eligibility predicate of input row i under the call's policy.
Eligible(i) ==
    /\ policy.require_live => IsLive(markets[i])
    /\ ~df[i].spread_calc.nan
    /\ df[i].spread_calc.v <= policy.max_spread
    /\ FirstNumeric(markets[i], <<"liquidityClob", "liquidityNum", "liquidity">>)
          >= policy.min_liquidity_clob
    /\ FirstNumeric(markets[i], <<"volume24hrClob", "volume24hr">>)
          >= policy.min_volume24h

ResultIdx == {result[j].idx : j \in 1 .. Len(result)}

\* C7 as stated: a record with a numeric explicit spread has spread_calc equal
\* to that value, whatever bestBid and bestAsk are.
C7_ExplicitSpreadAlwaysAccepted ==
    fpc = "done" =>
        \A i \in 1 .. Len(markets) :
            IsNumeric(markets[i]["spread"]) =>
                df[i].spread_calc = Val(markets[i]["spread"].v)

\* C7, amended: spread_calc is observable only when bestBid and bestAsk are
\* both numeric; it is then the explicit spread when that is numeric and
\* bestAsk - bestBid otherwise.  A numeric explicit spread on a record whose
\* bestBid or bestAsk is missing or not numeric gives an unobservable
\* spread_calc, and the record is not returned.
C7_SpreadNeedsBidAndAsk ==
    fpc = "done" =>
        \A i \in 1 .. Len(markets) :
            LET rec == markets[i]
            IN  IF IsNumeric(rec["bestBid"]) /\ IsNumeric(rec["bestAsk"])
                  THEN df[i].spread_calc =
                         IF IsNumeric(rec["spread"]) THEN Val(rec["spread"].v)
                         ELSE Val(rec["bestAsk"].v - rec["bestBid"].v)
                  ELSE df[i].spread_calc.nan /\ i \notin ResultIdx

C7_Witness ==
    /\ fpc = "done"
    /\ \E i \in 1 .. Len(markets) :
          /\ IsNumeric(markets[i]["spread"])
          /\ markets[i]["spread"].v <= policy.max_spread
          /\ ~IsNumeric(markets[i]["bestBid"])
          /\ IsNumeric(markets[i]["bestAsk"])
          /\ df[i].spread_calc.nan
          /\ i \notin ResultIdx

\* C8: the rows returned are exactly the input rows that satisfy the
\* eligibility predicate (live when require_live is set, spread_calc
\* observable and <= max_spread, liquidity_canon >= min_liquidity_clob,
\* volume24h_canon >= min_volume24h, the canonical values being the first
\* numeric candidate, else 0); each is returned once, with the columns of its
\* input row; an empty input gives an empty result.
C8_ExactlyTheEligibleRows ==
    fpc = "done" =>
        /\ Len(df) = Len(markets)
        /\ \A i \in 1 .. Len(markets) :
              /\ df[i].liquidity_canon =
                    Val(FirstNumeric(markets[i],
                                     <<"liquidityClob", "liquidityNum", "liquidity">>))
              /\ df[i].volume24h_canon =
                    Val(FirstNumeric(markets[i], <<"volume24hrClob", "volume24hr">>))
        /\ ResultIdx = {i \in 1 .. Len(markets) : Eligible(i)}
        /\ Cardinality(ResultIdx) = Len(result)
        /\ \A j \in 1 .. Len(result) : result[j] = df[result[j].idx]
        /\ markets = <<>> => result = <<>>

C8_Witness ==
    /\ fpc = "done"
    /\ policy.require_live
    /\ Len(markets) = 2
    /\ ResultIdx = {2}
    /\ ~IsLive(markets[1])
    /\ ~IsNumeric(markets[2]["liquidityClob"])
    /\ IsNumeric(markets[2]["liquidityNum"])

\* The three sort keys of two rows agree.
SameKeys(a, b) ==
    /\ a.volume24h_canon = b.volume24h_canon
    /\ a.liquidity_canon = b.liquidity_canon
    /\ a.spread_calc = b.spread_calc

\* Row a may stand before row b: volume24h_canon descending, then
\* liquidity_canon descending, then spread_calc ascending.
InOrder(a, b) ==
    \/ a.volume24h_canon.v > b.volume24h_canon.v
    \/ /\ a.volume24h_canon.v = b.volume24h_canon.v
       /\ a.liquidity_canon.v > b.liquidity_canon.v
    \/ /\ a.volume24h_canon.v = b.volume24h_canon.v
       /\ a.liquidity_canon.v = b.liquidity_canon.v
       /\ a.spread_calc.v <= b.spread_calc.v

\* C9: the result is ordered by volume24h_canon descending, then
\* liquidity_canon descending, then spread_calc ascending, and rows equal on
\* all three keys keep their input order.
C9_SortedAndStable ==
    fpc = "done" =>
        \A a, b \in 1 .. Len(result) :
            a < b =>
                /\ InOrder(result[a], result[b])
                /\ SameKeys(result[a], result[b]) => result[a].idx < result[b].idx

\* The sort moved a row: the second input row comes first, on its liquidity.
C9_Witness ==
    /\ fpc = "done"
    /\ Len(result) = 2
    /\ result[1].idx = 2
    /\ result[1].volume24h_canon = result[2].volume24h_canon
    /\ result[1].liquidity_canon.v > result[2].liquidity_canon.v
    /\ result[1].spread_calc.v > result[2].spread_calc.v

\* C10 as stated: every returned row has volume24h_canon >= 0 and
\* liquidity_canon >= 0, whatever the records and the thresholds.
C10_CanonNonNegative ==
    fpc = "done" =>
        \A j \in 1 .. Len(result) :
            /\ result[j].volume24h_canon.v >= 0
            /\ result[j].liquidity_canon.v >= 0

\* C10, amended: every returned row has volume24h_canon >= min_volume24h and
\* liquidity_canon >= min_liquidity_clob, neither being NaN; so each is
\* non-negative whenever its threshold is zero or more.
C10_CanonAtLeastThreshold ==
    fpc = "done" =>
        \A j \in 1 .. Len(result) :
            /\ ~result[j].volume24h_canon.nan
            /\ ~result[j].liquidity_canon.nan
            /\ result[j].volume24h_canon.v >= policy.min_volume24h
            /\ result[j].liquidity_canon.v >= policy.min_liquidity_clob
            /\ policy.min_volume24h >= 0 => result[j].volume24h_canon.v >= 0
            /\ policy.min_liquidity_clob >= 0 => result[j].liquidity_canon.v >= 0

C10_Witness ==
    /\ fpc = "done"
    /\ policy.min_volume24h >= 0
    /\ policy.min_liquidity_clob >= 0
    /\ Len(markets) = 2
    /\ df[1].liquidity_canon.v < 0
    /\ df[2].volume24h_canon.v < 0
    /\ ResultIdx = {}

(***************************************************************************)
(* Properties of R2Processor                                               *)
(***************************************************************************)
RECURSIVE AllKeys(_)
\* The keys of the first n pages of the listing, in page order.
AllKeys(n) == IF n = 0 THEN <<>> ELSE AllKeys(n - 1) \o KeysOf(listing[n])

\* C6: list_keys follows the continuation tokens until the store reports the
\* listing as no longer truncated: request i carries the token the response
\* to request i - 1 returned (the first carries none), each page is requested
\* once, and the returned list holds every key of every page in page order.
C6_ListKeysFollowsTokens ==
    /\ lpc \in {"loop", "returned"} =>
          /\ Len(lk_requests) <= Len(listing)
          /\ \A i \in 1 .. Len(lk_requests) :
                lk_requests[i] = IF i = 1 THEN 0 ELSE i
          /\ keys = AllKeys(Len(lk_requests))
    /\ lpc = "returned" =>
          /\ Len(lk_requests) = Len(listing)
          /\ keys = AllKeys(Len(listing))

C6_Witness ==
    /\ lpc = "returned"
    /\ Len(listing) = 3
    /\ lk_requests = <<0, 2, 3>>
    /\ listing[1] = <<"a">>
    /\ listing[2] = <<>>
    /\ listing[3] = <<"b", "a">>
    /\ keys = <<"a", "b", "a">>

\* The session of this upload is open: created, neither completed nor aborted.
SessionOpen == upload_id # 0 /\ sessions[upload_id].state = "open"

\* C4: once the multipart session is created, a failed upload_part or
\* complete_multipart_upload is followed by abort_multipart_upload for the
\* same upload id before the error reaches the caller; when the call has
\* ended in an error no session of it is open and no object has become
\* visible at the key: exists(key) is false if it was false before.
C4_FailedUploadAborts ==
    (mpc = "raised" /\ upload_id # 0) =>
        LET n == Len(s3_calls)
        IN  /\ n >= 3
            /\ s3_calls[n] = [op |-> "abort_multipart_upload", id |-> upload_id,
                              ok |-> TRUE]
            /\ s3_calls[n - 1].op \in {"upload_part", "complete_multipart_upload"}
            /\ ~s3_calls[n - 1].ok
            /\ s3_calls[n - 1].id = upload_id
            /\ \A i \in 1 .. n - 2 : s3_calls[i].ok
            /\ ~SessionOpen
            /\ sessions[upload_id].state = "aborted"
            /\ sessions[upload_id].parts = <<>>
            /\ object.exists = existed

\* Part 2 of 3 fails.
C4_Witness ==
    /\ mpc = "raised"
    /\ Len(data) > 2 * PartSize
    /\ ~existed
    /\ upload_id = 2
    /\ Len(s3_calls) = 4
    /\ s3_calls[2].op = "upload_part" /\ s3_calls[2].ok
    /\ s3_calls[3].op = "upload_part" /\ ~s3_calls[3].ok
    /\ s3_calls[4].op = "abort_multipart_upload" /\ s3_calls[4].id = 2
    /\ ~object.exists

\* C11: on a successful put_large_bytes_multipart the payload is cut into
\* consecutive chunks of max(5, part_size_mb) MiB in offset order; the parts
\* are uploaded one after another under the one upload id of one session,
\* numbered 1, 2, ..., n in that order; every part but the last has exactly
\* that size; the parts in part-number order make up the payload; and the
\* session is completed once, after the last part, with the list of all n
\* parts in ascending part-number order.
C11_PartsInOrderThenCompleted ==
    mpc = "returned" =>
        LET up == sessions[upload_id].parts
            n == Len(up)
            size == (IF part_size_mb > 5 THEN part_size_mb ELSE 5) * MiB
            calls == Len(s3_calls)
        IN  /\ n >= 1
            /\ calls = n + 2
            /\ s3_calls[1] = [op |-> "create_multipart_upload", id |-> upload_id,
                              ok |-> TRUE]
            /\ \A c \in 2 .. n + 1 :
                  s3_calls[c] = [op |-> "upload_part", id |-> upload_id, ok |-> TRUE]
            /\ s3_calls[calls] = [op |-> "complete_multipart_upload",
                                  id |-> upload_id, ok |-> TRUE, Parts |-> parts]
            /\ Cardinality({i \in 1 .. Len(sessions) : sessions[i].key = "key"}) = 1
            /\ Len(parts) = n
            /\ \A i \in 1 .. n :
                  /\ up[i].PartNumber = i
                  /\ parts[i].PartNumber = i
                  /\ parts[i].ETag = up[i].Body
                  /\ up[i].Body = [k \in 1 .. Len(up[i].Body) |-> (i - 1) * size + k]
                  /\ i < n => Len(up[i].Body) = size
                  /\ i = n => Len(up[i].Body) \in 1 .. size
            /\ Concat(up, n) = data
            /\ sessions[upload_id].state = "completed"
            /\ object = [exists |-> TRUE, body |-> data]

\* Three parts of 6 MiB, 6 MiB and half a MiB.
C11_Witness ==
    /\ mpc = "returned"
    /\ part_size_mb = 6
    /\ Len(data) = 25
    /\ Len(parts) = 3
    /\ Len(sessions[upload_id].parts[3].Body) = 1
    /\ upload_id = 2

Init == FetchInit /\ FilterIdle /\ ListIdle /\ MultipartIdle

Next ==
    \/ Request
    \/ CallFilter

Spec == Init /\ [][Next]_vars

InitFilter == FetchIdle /\ FilterInit /\ ListIdle /\ MultipartIdle

SpecFilter == InitFilter /\ [][FilterNext]_vars

InitList == FetchIdle /\ FilterIdle /\ ListInit /\ MultipartIdle

SpecList == InitList /\ [][ListNext]_vars

InitMultipart == FetchIdle /\ FilterIdle /\ ListIdle /\ MultipartInit

SpecMultipart == InitMultipart /\ [][MultipartNext]_vars

=============================================================================
